---- MODULE Spec2Model ----
(***************************************************************************)
(* Model of scripts/processing/download_era5_data.py: the command-line     *)
(* entry point and download_era5_variable(start_year, end_year,            *)
(* output_dir), which constructs a cdsapi client, creates the output       *)
(* directory and retrieves five ERA5-Land variables one after the other.   *)
(*                                                                         *)
(* The cdsapi client and the operating system are the environment: a       *)
(* construction, a directory creation and a retrieval each either return   *)
(* or raise, and a raising retrieval may or may not leave a partial file.  *)
(***************************************************************************)
EXTENDS Integers, Sequences, FiniteSets, TLC

VARIABLES
    sys_argv,       \* sys.argv: program name followed by the arguments (character sequences)
    pc,             \* position of the process
    start_year,     \* int(sys.argv[1])
    end_year,       \* int(sys.argv[2])
    c,              \* TRUE once c = cdsapi.Client() has returned
    config,         \* the local list variables_config: name, dataset, address of the request dict
    heap,           \* the dict objects of the run, by address
    request,        \* address of the dict bound to the local `request` (0: unbound)
    output_file,    \* the local output_file
    i,              \* index of the loop's current element of variables_config
    dirState,       \* what is at output_dir: "absent", "dir" or "file"
    files,          \* the files under output_dir: path -> content
    events,         \* what the run has done so far, in order (prints and external calls)
    exitStatus,     \* exit status of the process (-1 while it runs)
    failedAt,       \* the call whose exception ended the run ("none" if none)
    run,            \* number of the invocation of the script
    startDir,       \* dirState when this invocation started
    startFiles      \* DOMAIN files when this invocation started

vars == << sys_argv, pc, start_year, end_year, c, config, heap, request,
           output_file, i, dirState, files, events, exitStatus, failedAt,
           run, startDir, startFiles >>

-----------------------------------------------------------------------------
(* Bounds of the model *)

\* invocations of the script on the same filesystem
MaxRuns == 2

\* command-line arguments given to one invocation (0..MaxArgs)
MaxArgs == 3

\* the argument strings an invocation draws from: "9", "10", "09" and "x"
ArgStrings == { <<"9">>, <<"1", "0">>, <<"0", "9">>, <<"x">> }

ProgName == <<"download_era5_data.py">>

-----------------------------------------------------------------------------
(* Conversions: str(), f"{n:02d}" and int() *)

DigitChars == << "0", "1", "2", "3", "4", "5", "6", "7", "8", "9" >>

RECURSIVE Str(_)
\* str(n) of a Python int
Str(n) ==
    IF n < 0 THEN "-" \o Str(-n)
    ELSE IF n < 10 THEN DigitChars[n + 1]
    ELSE Str(n \div 10) \o DigitChars[(n % 10) + 1]

\* f"{n:02d}": str(n) padded with zeros to width two
Pad2(n) == IF n >= 0 /\ n < 10 THEN "0" \o Str(n) ELSE Str(n)

DigitValue(ch) == CHOOSE d \in 0..9 : DigitChars[d + 1] = ch

IsDigit(ch) == \E d \in 0..9 : DigitChars[d + 1] = ch

RECURSIVE DigitsValue(_)
\* value of a non-empty sequence of decimal digits
DigitsValue(s) ==
    IF Len(s) = 1 THEN DigitValue(s[1])
    ELSE 10 * DigitsValue(SubSeq(s, 1, Len(s) - 1)) + DigitValue(s[Len(s)])

\* int(s) returns (does not raise ValueError): an optional sign, then digits
IsIntLiteral(s) ==
    LET body == IF Len(s) > 0 /\ s[1] \in {"-", "+"} THEN Tail(s) ELSE s
    IN  Len(body) > 0 /\ \A k \in 1..Len(body) : IsDigit(body[k])

\* int(s) of a string for which it returns
IntOf(s) ==
    IF s[1] = "-" THEN 0 - DigitsValue(Tail(s))
    ELSE IF s[1] = "+" THEN DigitsValue(Tail(s))
    ELSE DigitsValue(s)

-----------------------------------------------------------------------------
(* The data of download_era5_variable *)

OutputDir == "../../preprocessing/ERA5_land_data/data"

Dataset == "reanalysis-era5-land-monthly-means"

\* [f"{hour:02d}:00" for hour in range(24)]
HourlyTimes == [h \in 1..24 |-> Pad2(h - 1) \o ":00"]

Descriptor(name, product, variable, time) ==
    [ name |-> name,
      dataset |-> Dataset,
      request |-> [ product_type |-> << product >>,
                    variable |-> << variable >>,
                    time |-> time,
                    data_format |-> "grib",
                    download_format |-> "unarchived" ] ]

\* variables_config with t2m and tdew exchanged
variables_config_swapped ==
    << Descriptor("t2mhourly", "monthly_averaged_reanalysis_by_hour_of_day",
                  "2m_temperature", HourlyTimes),
       Descriptor("tdew", "monthly_averaged_reanalysis",
                  "2m_dewpoint_temperature", << "00:00" >>),
       Descriptor("t2m", "monthly_averaged_reanalysis",
                  "2m_temperature", << "00:00" >>),
       Descriptor("precipitation", "monthly_averaged_reanalysis_by_hour_of_day",
                  "total_precipitation", << "00:00" >>),
       Descriptor("solar_radiation", "monthly_averaged_reanalysis_by_hour_of_day",
                  "surface_solar_radiation_downwards", << "00:00" >>) >>

\* the list literal variables_config, each request dict written out
variables_config ==
    << Descriptor("t2mhourly", "monthly_averaged_reanalysis_by_hour_of_day",
                  "2m_temperature", HourlyTimes),
       Descriptor("t2m", "monthly_averaged_reanalysis",
                  "2m_temperature", << "00:00" >>),
       Descriptor("tdew", "monthly_averaged_reanalysis",
                  "2m_dewpoint_temperature", << "00:00" >>),
       Descriptor("precipitation", "monthly_averaged_reanalysis_by_hour_of_day",
                  "total_precipitation", << "00:00" >>),
       Descriptor("solar_radiation", "monthly_averaged_reanalysis_by_hour_of_day",
                  "surface_solar_radiation_downwards", << "00:00" >>) >>

\* os.path.join(a, b) of a relative b
path_join(a, b) == a \o "/" \o b

\* the file name without the end year
file_name_no_end(name, s, e) == name \o "_" \o Str(s) \o ".grib"

\* f"{config['name']}_{start_year}_{end_year}.grib"
file_name(name, s, e) == name \o "_" \o Str(s) \o "_" \o Str(e) \o ".grib"

\* range(start_year, end_year): the end year left out
year_list_exclusive(s, e) ==
    IF e - 1 < s THEN << >> ELSE [k \in 1..(e - s) |-> Str(s + k - 1)]

\* the years between the two bounds whichever is larger
year_list_normalised(s, e) ==
    LET lo == IF s <= e THEN s ELSE e
        hi == IF s <= e THEN e ELSE s
    IN  [k \in 1..(hi - lo + 1) |-> Str(lo + k - 1)]

\* [str(year) for year in range(start_year, end_year + 1)]
year_list(s, e) ==
    IF e < s THEN << >> ELSE [k \in 1..(e - s + 1) |-> Str(s + k - 1)]

\* [f"{month:02d}" for month in range(1, 13)]
month_list == [m \in 1..12 |-> Pad2(m)]

\* first address not in use
NewAddr(h) == CHOOSE a \in 1..(Cardinality(DOMAIN h) + 1) : a \notin DOMAIN h

\* binding the descriptor's own dict instead of a copy
dict_alias(h, a) == [ addr |-> a, heap |-> h ]

\* d.copy(): a new dict object with the same items
dict_copy(h, a) ==
    [ addr |-> NewAddr(h), heap |-> (NewAddr(h) :> h[a]) @@ h ]

\* d.update(u), in place: the items of u added to or replacing those of d
dict_update(h, a, u) ==
    [ h EXCEPT ![a] =
        [ k \in DOMAIN h[a] \cup DOMAIN u |-> IF k \in DOMAIN u THEN u[k] ELSE h[a][k] ] ]

\* the dict objects still referenced by the locals config and request
Reachable(cfg, req) == { cfg[k].request : k \in 1..Len(cfg) } \cup ({req} \ {0})

Collect(h, cfg, req) == [ a \in DOMAIN h \cap Reachable(cfg, req) |-> h[a] ]

\* os.makedirs(output_dir) without exist_ok: an existing directory raises
makedirs_no_exist_ok(d) ==
    IF d = "absent"
    THEN { [ok |-> TRUE, dir |-> "dir"], [ok |-> FALSE, dir |-> "absent"] }
    ELSE { [ok |-> FALSE, dir |-> d] }

\* os.makedirs(output_dir, exist_ok=True): an existing directory is accepted,
\* a file at the path raises, creating may fail with an OSError
makedirs(d) ==
    IF d = "dir" THEN { [ok |-> TRUE, dir |-> "dir"] }
    ELSE IF d = "file" THEN { [ok |-> FALSE, dir |-> "file"] }
    ELSE { [ok |-> TRUE, dir |-> "dir"], [ok |-> FALSE, dir |-> "absent"] }

\* more or fewer than one argument is accepted only if fewer than two
argc_wrong_lt(argv) == Len(argv) < 3

\* len(sys.argv) != 3
argc_wrong(argv) == Len(argv) # 3

-----------------------------------------------------------------------------
(* Events *)

Ev(type, arg) == [ type |-> type, arg |-> arg ]

UsageLine == "Uso: python download_era5_data.py <año_inicio> <año_fin>"

DownloadingLine(name, s, e) ==
    "Downloading " \o name \o " for " \o Str(s) \o "-" \o Str(e) \o "..."

DownloadedLine(name, s, e, path) ==
    "Downloaded " \o name \o " for " \o Str(s) \o "-" \o Str(e) \o ": " \o path

\* what a retrieval writes at its target
FileContent(r, complete) == [ run |-> r, complete |-> complete ]

-----------------------------------------------------------------------------
(* The process *)

ArgLists == UNION { [1..n -> ArgStrings] : n \in 0..MaxArgs }

\* the state of a fresh process given its arguments and the filesystem
Fresh(args, d, f, r) ==
    /\ sys_argv = ProgName \o args
    /\ pc = "main"
    /\ start_year = 0
    /\ end_year = 0
    /\ c = FALSE
    /\ config = << >>
    /\ heap = << >>
    /\ request = 0
    /\ output_file = ""
    /\ i = 0
    /\ dirState = d
    /\ files = f
    /\ events = << >>
    /\ exitStatus = -1
    /\ failedAt = "none"
    /\ run = r
    /\ startDir = d
    /\ startFiles = DOMAIN f

StrayFile == path_join(OutputDir, "README")

NoFiles == [ p \in {} |-> FileContent(0, TRUE) ]

InitialFilesystems ==
    { [dir |-> "absent", files |-> NoFiles],
      [dir |-> "file", files |-> NoFiles],
      [dir |-> "dir", files |-> NoFiles],
      [dir |-> "dir", files |-> [ p \in {StrayFile} |-> FileContent(0, TRUE) ]] }

Init ==
    \E args \in ArgLists, fs \in InitialFilesystems :
        Fresh(args, fs.dir, fs.files, 1)

\* the exception of a call propagates: the process ends with status 1
Raise(where) ==
    /\ pc' = "failed"
    /\ failedAt' = where
    /\ exitStatus' = 1

\* the __main__ block up to the call of download_era5_variable
Main ==
    /\ pc = "main"
    /\ IF argc_wrong(sys_argv)
       THEN /\ events' = Append(events, Ev("print", UsageLine))
            /\ pc' = "exited"
            /\ exitStatus' = 1
            /\ UNCHANGED << start_year, end_year, failedAt >>
       ELSE IF ~ (IsIntLiteral(sys_argv[2]) /\ IsIntLiteral(sys_argv[3]))
       THEN /\ Raise("int")
            /\ UNCHANGED << start_year, end_year, events >>
       ELSE /\ start_year' = IntOf(sys_argv[2])
            /\ end_year' = IntOf(sys_argv[3])
            /\ pc' = "client"
            /\ UNCHANGED << events, exitStatus, failedAt >>
    /\ UNCHANGED << sys_argv, c, config, heap, request, output_file, i,
                    dirState, files, run, startDir, startFiles >>

\* a failed construction is ignored and the function goes on
ClientConstructIgnoringFailure ==
    /\ pc = "client"
    /\ \E ok \in BOOLEAN :
        /\ events' = Append(events, Ev("Client", ok))
        /\ c' = ok
        /\ pc' = "makedirs"
        /\ UNCHANGED << exitStatus, failedAt >>
    /\ UNCHANGED << sys_argv, start_year, end_year, config, heap, request,
                    output_file, i, dirState, files, run, startDir, startFiles >>

\* c = cdsapi.Client()
ClientConstruct ==
    /\ pc = "client"
    /\ \E ok \in BOOLEAN :
        /\ events' = Append(events, Ev("Client", ok))
        /\ c' = ok
        /\ IF ok
           THEN pc' = "makedirs" /\ UNCHANGED << exitStatus, failedAt >>
           ELSE Raise("Client")
    /\ UNCHANGED << sys_argv, start_year, end_year, config, heap, request,
                    output_file, i, dirState, files, run, startDir, startFiles >>

\* variables_config = [...] and os.makedirs(output_dir, exist_ok=True)
Makedirs ==
    /\ pc = "makedirs"
    /\ config' = [ k \in 1..Len(variables_config) |->
                     [ name |-> variables_config[k].name,
                       dataset |-> variables_config[k].dataset,
                       request |-> k ] ]
    /\ heap' = [ k \in 1..Len(variables_config) |-> variables_config[k].request ]
    /\ \E out \in makedirs(dirState) :
        /\ dirState' = out.dir
        /\ events' = Append(events, Ev("makedirs", out.ok))
        /\ IF out.ok
           THEN /\ pc' = "loop"
                /\ i' = 1
                /\ UNCHANGED << exitStatus, failedAt >>
           ELSE /\ Raise("makedirs")
                /\ UNCHANGED i
    /\ UNCHANGED << sys_argv, start_year, end_year, c, request, output_file,
                    files, run, startDir, startFiles >>

\* the body of the loop with the retrieval called before the progress line
IterBeginPrintAfter ==
    /\ pc = "loop"
    /\ LET cfg  == config[i]
           path == path_join(OutputDir, file_name(cfg.name, start_year, end_year))
           cp   == dict_copy(heap, cfg.request)
           h2   == dict_update(cp.heap, cp.addr,
                               [ year |-> year_list(start_year, end_year),
                                 month |-> month_list ])
       IN  /\ output_file' = path
           /\ request' = cp.addr
           /\ heap' = Collect(h2, config, cp.addr)
           /\ events' = events \o
                << Ev("retrieve", [ dataset |-> cfg.dataset,
                                    request |-> h2[cp.addr],
                                    target |-> path ]),
                   Ev("print", DownloadingLine(cfg.name, start_year, end_year)) >>
    /\ pc' = "retrieve"
    /\ UNCHANGED << sys_argv, start_year, end_year, c, config, i, dirState,
                    files, exitStatus, failedAt, run, startDir, startFiles >>

\* the body of the loop up to the call c.retrieve(dataset, request, output_file)
IterBegin ==
    /\ pc = "loop"
    /\ LET cfg  == config[i]
           path == path_join(OutputDir, file_name(cfg.name, start_year, end_year))
           cp   == dict_copy(heap, cfg.request)
           h2   == dict_update(cp.heap, cp.addr,
                               [ year |-> year_list(start_year, end_year),
                                 month |-> month_list ])
       IN  /\ output_file' = path
           /\ request' = cp.addr
           /\ heap' = Collect(h2, config, cp.addr)
           /\ events' = events \o
                << Ev("print", DownloadingLine(cfg.name, start_year, end_year)),
                   Ev("retrieve", [ dataset |-> cfg.dataset,
                                    request |-> h2[cp.addr],
                                    target |-> path ]) >>
    /\ pc' = "retrieve"
    /\ UNCHANGED << sys_argv, start_year, end_year, c, config, i, dirState,
                    files, exitStatus, failedAt, run, startDir, startFiles >>

\* c.retrieve returns: the file is at the target; the second progress line;
\* the loop goes to its next element or the function returns
RetrieveReturn ==
    /\ pc = "retrieve"
    /\ files' = (output_file :> FileContent(run, TRUE)) @@ files
    /\ events' = events \o
         << Ev("return", output_file),
            Ev("print", DownloadedLine(config[i].name, start_year, end_year, output_file)) >>
    /\ IF i < Len(config)
       THEN /\ i' = i + 1
            /\ pc' = "loop"
            /\ UNCHANGED exitStatus
       ELSE /\ pc' = "done"
            /\ exitStatus' = 0
            /\ UNCHANGED i
    /\ UNCHANGED << sys_argv, start_year, end_year, c, config, heap, request,
                    output_file, dirState, failedAt, run, startDir, startFiles >>

\* the exception of c.retrieve is caught and the loop goes on
RetrieveFailSwallowed ==
    /\ pc = "retrieve"
    /\ \E partial \in BOOLEAN :
        files' = IF partial
                 THEN (output_file :> FileContent(run, FALSE)) @@ files
                 ELSE files
    /\ events' = Append(events, Ev("raise", output_file))
    /\ IF i < Len(config)
       THEN /\ i' = i + 1
            /\ pc' = "loop"
            /\ UNCHANGED exitStatus
       ELSE /\ pc' = "done"
            /\ exitStatus' = 0
            /\ UNCHANGED i
    /\ UNCHANGED << sys_argv, start_year, end_year, c, config, heap, request,
                    output_file, dirState, failedAt, run, startDir, startFiles >>

\* c.retrieve raises: nothing catches it, the process ends
RetrieveFail ==
    /\ pc = "retrieve"
    /\ \E partial \in BOOLEAN :
        files' = IF partial
                 THEN (output_file :> FileContent(run, FALSE)) @@ files
                 ELSE files
    /\ events' = Append(events, Ev("raise", output_file))
    /\ Raise("retrieve")
    /\ UNCHANGED << sys_argv, start_year, end_year, c, config, heap, request,
                    output_file, i, dirState, run, startDir, startFiles >>

Terminated == pc \in {"done", "exited", "failed"}

\* the script is invoked again on the filesystem the last invocation left
Rerun ==
    /\ Terminated
    /\ run < MaxRuns
    /\ \E args \in ArgLists :
        /\ sys_argv' = ProgName \o args
        /\ pc' = "main"
        /\ start_year' = 0
        /\ end_year' = 0
        /\ c' = FALSE
        /\ config' = << >>
        /\ heap' = << >>
        /\ request' = 0
        /\ output_file' = ""
        /\ i' = 0
        /\ events' = << >>
        /\ exitStatus' = -1
        /\ failedAt' = "none"
        /\ run' = run + 1
        /\ startDir' = dirState
        /\ startFiles' = DOMAIN files
    /\ UNCHANGED << dirState, files >>

Next ==
    \/ Main
    \/ ClientConstruct
    \/ Makedirs
    \/ IterBegin
    \/ RetrieveReturn
    \/ RetrieveFail
    \/ Rerun

Spec == Init /\ [][Next]_vars

-----------------------------------------------------------------------------
(* What the run has done, read off the events *)

OfType(type) == SelectSeq(events, LAMBDA e : e.type = type)

\* the retrieval calls issued so far, in order
Calls == OfType("retrieve")

\* the retrievals that returned, and those that raised
Returns == OfType("return")

Raises == OfType("raise")

\* positions in events of the events of a type
Positions(type) == { p \in 1..Len(events) : events[p].type = type }

\* the number of events of a type among the first n events
CountBefore(type, n) == Cardinality({ p \in Positions(type) : p < n })

IsDownloading(e) == e.type = "print" /\ SubSeq(e.arg, 1, 12) = "Downloading "

\* the five variable names in the order the specification fixes
VarNames == << "t2mhourly", "t2m", "tdew", "precipitation", "solar_radiation" >>

\* the path the specification gives the file of the k-th variable
ExpectedFile(k) ==
    "../../preprocessing/ERA5_land_data/data/" \o VarNames[k] \o "_"
        \o Str(start_year) \o "_" \o Str(end_year) \o ".grib"

ExpectedFiles == { ExpectedFile(k) : k \in 1..5 }

FixedKeys == { "product_type", "variable", "time", "data_format", "download_format" }

TwelveMonths ==
    << "01", "02", "03", "04", "05", "06", "07", "08", "09", "10", "11", "12" >>

\* the process is inside download_era5_variable with valid integer years
InFunction == pc \in {"client", "makedirs", "loop", "retrieve", "done"}
                \/ (pc = "failed" /\ failedAt # "int")

-----------------------------------------------------------------------------
(* C1: a run with start_year <= end_year that starts with an absent or     *)
(* empty output directory and in which every retrieval succeeds ends with  *)
(* exactly the five files {name}_{start_year}_{end_year}.grib in the       *)
(* directory, one retrieval call per variable, five distinct targets.      *)
C1_FiveFiles ==
    (pc = "done" /\ startFiles = {} /\ start_year <= end_year) =>
        /\ dirState = "dir"
        /\ DOMAIN files = ExpectedFiles
        /\ Cardinality(DOMAIN files) = 5
        /\ \A p \in DOMAIN files : files[p] = FileContent(run, TRUE)
        /\ Len(Calls) = 5
        /\ \A k \in 1..5 :
             Cardinality({ n \in 1..Len(Calls) : Calls[n].arg.target = ExpectedFile(k) }) = 1
        /\ \A m, n \in 1..Len(Calls) :
             m # n => Calls[m].arg.target # Calls[n].arg.target
        /\ (start_year = 9 /\ end_year = 10) =>
             files[OutputDir \o "/t2m_9_10.grib"] = FileContent(run, TRUE)

C1_Witness ==
    /\ pc = "done"
    /\ startDir = "absent"
    /\ start_year < end_year
    /\ Cardinality(DOMAIN files) = 5

(* C2: with start_year <= end_year, the request of every retrieval call    *)
(* has 'year' equal to the ascending list of the years start_year ..       *)
(* end_year as strings and 'month' equal to "01".."12", the same for all   *)
(* five variables.                                                         *)
C2_YearMonth ==
    (InFunction /\ start_year <= end_year) =>
        \A n \in 1..Len(Calls) :
            LET req == Calls[n].arg.request
            IN  /\ Len(req.year) = end_year - start_year + 1
                /\ \A j \in 1..Len(req.year) : req.year[j] = Str(start_year + j - 1)
                /\ (start_year = 9 /\ end_year = 10) => req.year = << "9", "10" >>
                /\ req.month = TwelveMonths
                /\ req.year = Calls[1].arg.request.year
                /\ req.month = Calls[1].arg.request.month

C2_Witness ==
    /\ pc = "done"
    /\ start_year = 9
    /\ end_year = 10
    /\ Len(Calls) = 5

(* C3: invoked with a number of arguments other than two, the script       *)
(* prints the usage message and exits with a nonzero status; the output    *)
(* directory is not created, the client is not constructed and no          *)
(* retrieval call is issued.                                               *)
C3_WrongArgCount ==
    (Len(sys_argv) - 1 # 2) =>
        /\ pc \in {"main", "exited"}
        /\ pc = "exited" =>
             /\ events = << Ev("print", UsageLine) >>
             /\ exitStatus # 0
             /\ exitStatus # -1
        /\ c = FALSE
        /\ Positions("Client") = {}
        /\ Positions("makedirs") = {}
        /\ Positions("retrieve") = {}
        /\ dirState = startDir
        /\ DOMAIN files = startFiles

C3_Witness ==
    /\ pc = "exited"
    /\ Len(sys_argv) - 1 = 3
    /\ startDir = "absent"

(* C4: when the retrieval of the N-th variable fails the run ends with     *)
(* that failure: the files of variables 1..N-1 are on disk as their        *)
(* retrievals wrote them, variable N was called once, and nothing follows  *)
(* the failure: no call for variables N+1..5 is issued.                    *)
C4_FailureStops ==
    /\ \A p \in Positions("raise") : p = Len(events) /\ pc = "failed"
    /\ failedAt = "retrieve" =>
         /\ pc = "failed"
         /\ exitStatus # 0
         /\ Len(Raises) = 1
         /\ Len(Calls) = i
         /\ Len(Returns) = i - 1
         /\ \A k \in 1..i : Calls[k].arg.target = ExpectedFile(k)
         /\ \A k \in 1..(i - 1) :
              /\ ExpectedFile(k) \in DOMAIN files
              /\ files[ExpectedFile(k)] = FileContent(run, TRUE)

C4_Witness ==
    /\ failedAt = "retrieve"
    /\ i = 2
    /\ ExpectedFile(1) \in DOMAIN files
    /\ ExpectedFile(2) \in DOMAIN files
    /\ files[ExpectedFile(2)] = FileContent(run, FALSE)

(* C5: a second run with the same arguments, the directory and the five    *)
(* files already there, does not fail at directory creation, issues the    *)
(* five retrieval calls again to the same five paths although the files    *)
(* exist, and leaves the set of file names as it was after the first run.  *)
C5_Rerun ==
    (run >= 2 /\ InFunction /\ startDir = "dir" /\ ExpectedFiles \subseteq startFiles) =>
        /\ failedAt # "makedirs"
        /\ \A n \in 1..Len(Calls) :
             /\ Calls[n].arg.target = ExpectedFile(n)
             /\ Calls[n].arg.target \in startFiles
        /\ pc \in {"retrieve", "loop"} => Len(Calls) = IF pc = "retrieve" THEN i ELSE i - 1
        /\ pc = "done" =>
             /\ Len(Calls) = 5
             /\ DOMAIN files = startFiles
             /\ \A k \in 1..5 : files[ExpectedFile(k)] = FileContent(run, TRUE)

C5_Witness ==
    /\ run = 2
    /\ pc = "done"
    /\ startDir = "dir"
    /\ ExpectedFiles \subseteq startFiles
    /\ Len(Calls) = 5

(* C6: the retrieval calls are issued in the order t2mhourly, t2m, tdew,   *)
(* precipitation, solar_radiation; the call for a variable is issued only  *)
(* after the calls of all earlier variables have returned successfully;    *)
(* at most one retrieval call is in flight.                                *)
C6_Order ==
    /\ Len(Calls) <= 5
    /\ \A k \in 1..Len(Calls) : Calls[k].arg.target = ExpectedFile(k)
    /\ \A p \in Positions("retrieve") :
         /\ CountBefore("return", p) = CountBefore("retrieve", p)
         /\ CountBefore("raise", p) = 0
    /\ \A k \in 1..Len(Returns) : Returns[k].arg = ExpectedFile(k)
    /\ Len(Calls) - Len(Returns) - Len(Raises) \in {0, 1}
    /\ (Len(Calls) - Len(Returns) - Len(Raises) = 1) <=> (pc = "retrieve")

C6_Witness ==
    /\ pc = "retrieve"
    /\ Len(Calls) = 5
    /\ Len(Returns) = 4

(* C7: for every variable reached, the 'Downloading' line is printed       *)
(* right before its retrieval call and the 'Downloaded' line, naming the   *)
(* output file, after the call has returned; a 'Downloaded' line is        *)
(* printed only for a retrieval that returned, so the 'Downloaded' lines   *)
(* are as many as the completed retrievals and at most as many as the      *)
(* 'Downloading' lines.                                                    *)
C7_Progress ==
    LET downloading == { p \in Positions("print") : IsDownloading(events[p]) }
        downloaded  == { p \in Positions("print") :
                           SubSeq(events[p].arg, 1, 11) = "Downloaded " }
        nameAt(p)   == VarNames[CountBefore("retrieve", p) + 1]
    IN  /\ \A p \in Positions("retrieve") :
             /\ p > 1
             /\ events[p - 1] =
                  Ev("print", DownloadingLine(nameAt(p), start_year, end_year))
        /\ \A p \in downloading : p < Len(events) /\ events[p + 1].type = "retrieve"
        /\ \A p \in Positions("return") :
             /\ p < Len(events)
             /\ events[p + 1] =
                  Ev("print", DownloadedLine(nameAt(p - 1), start_year, end_year,
                                             ExpectedFile(CountBefore("retrieve", p))))
        /\ \A p \in downloaded : p > 1 /\ events[p - 1].type = "return"
        /\ Cardinality(downloaded) = Len(Returns)
        /\ Cardinality(downloaded) <= Cardinality(downloading)
        /\ Cardinality(downloading) = Len(Calls)
        /\ (start_year = 9 /\ end_year = 10 /\ Len(Returns) >= 1) =>
             /\ events[3] = Ev("print", "Downloading t2mhourly for 9-10...")
             /\ events[6] = Ev("print", "Downloaded t2mhourly for 9-10: "
                    \o "../../preprocessing/ERA5_land_data/data/t2mhourly_9_10.grib")

C7_Witness ==
    /\ failedAt = "retrieve"
    /\ Len(Returns) = 2
    /\ Len(Calls) = 3
    /\ start_year = 9
    /\ end_year = 10

(* C8: building a completed request does not change its descriptor: after  *)
(* any number of iterations every descriptor's request has its five        *)
(* original keys and values and no 'year' or 'month'; every completed      *)
(* request is its descriptor's mapping plus exactly 'year' and 'month'.    *)
C8_DescriptorsUnchanged ==
    /\ \A k \in 1..Len(config) :
         LET d == heap[config[k].request]
         IN  /\ DOMAIN d = FixedKeys
             /\ "year" \notin DOMAIN d
             /\ "month" \notin DOMAIN d
             /\ d = variables_config[k].request
             /\ config[k].name = variables_config[k].name
             /\ config[k].dataset = variables_config[k].dataset
    /\ \A n \in 1..Len(Calls) :
         LET req == Calls[n].arg.request
             d   == variables_config[n].request
         IN  /\ DOMAIN req = FixedKeys \cup {"year", "month"}
             /\ Cardinality(DOMAIN req) = 7
             /\ req.product_type = d.product_type
             /\ req.variable = d.variable
             /\ req.time = d.time
             /\ req.data_format = d.data_format
             /\ req.download_format = d.download_format
    /\ request # 0 =>
         /\ request \notin { config[k].request : k \in 1..Len(config) }
         /\ heap[request] = Calls[Len(Calls)].arg.request

C8_Witness ==
    /\ pc = "done"
    /\ Len(Calls) = 5
    /\ Len(config) = 5
    /\ request # 0

(* C9: the order of the years is not checked: with start_year > end_year   *)
(* the run is not rejected; the output directory is created and the five   *)
(* retrieval calls are issued as for an ordered pair (each once its        *)
(* predecessor has returned), each with an empty 'year' list and the       *)
(* target {name}_{start_year}_{end_year}.grib.                             *)
C9_NoYearValidation ==
    (start_year > end_year) =>
        /\ pc # "exited"
        /\ pc # "main"
        /\ failedAt \in {"none", "Client", "makedirs", "retrieve"}
        /\ pc \in {"loop", "retrieve", "done"} => dirState = "dir"
        /\ \A n \in 1..Len(Calls) :
             /\ Calls[n].arg.request.year = << >>
             /\ Calls[n].arg.target = ExpectedFile(n)
        /\ pc = "loop" => Len(Calls) = i - 1 /\ i <= 5 /\ ENABLED IterBegin
        /\ pc = "retrieve" => Len(Calls) = i
        /\ pc = "done" => Len(Calls) = 5 /\ exitStatus = 0
        /\ (start_year = 10 /\ end_year = 9 /\ Len(Calls) >= 2) =>
             Calls[2].arg.target = OutputDir \o "/t2m_10_9.grib"

C9_Witness ==
    /\ pc = "done"
    /\ start_year = 10
    /\ end_year = 9
    /\ startDir = "absent"
    /\ dirState = "dir"
    /\ Len(Calls) = 5

(* C10: in a run of download_era5_variable the client is constructed once, *)
(* before the output directory is created, and the directory is created    *)
(* before the first retrieval call; a failed construction leaves the       *)
(* directory uncreated and issues no retrieval, a failed directory         *)
(* creation issues no retrieval.                                           *)
C10_ClientThenDirThenRetrieve ==
    /\ Cardinality(Positions("Client")) <= 1
    /\ Cardinality(Positions("makedirs")) <= 1
    /\ (InFunction /\ pc # "client") =>
         /\ Positions("Client") = {1}
         /\ c = events[1].arg
    /\ \A p \in Positions("makedirs") :
         /\ p = 2
         /\ events[1] = Ev("Client", TRUE)
    /\ \A p \in Positions("retrieve") :
         /\ p > 2
         /\ events[1] = Ev("Client", TRUE)
         /\ events[2] = Ev("makedirs", TRUE)
    /\ failedAt = "Client" =>
         /\ Positions("makedirs") = {}
         /\ dirState = startDir
         /\ Calls = << >>
         /\ DOMAIN files = startFiles
    /\ failedAt = "makedirs" =>
         /\ Calls = << >>
         /\ dirState # "dir"
         /\ DOMAIN files = startFiles

C10_Witness ==
    /\ failedAt = "makedirs"
    /\ c = TRUE
    /\ startDir = "absent"
    /\ Len(events) = 2

====
